---- MODULE Spec2Model ----
(***************************************************************************)
(* A model of the fastpdf Go client (src/fastpdf/api.go, errors.go).       *)
(*                                                                         *)
(* Texts that the code builds or takes apart (URLs, JSON) are modelled by  *)
(* what the code does with them.  A Go string that is only concatenated is *)
(* a TLA+ string; a byte slice or a text that is scanned is a sequence of  *)
(* tokens, wrapped in a record when the nil slice has to be told from the  *)
(* empty one.                                                              *)
(***************************************************************************)
EXTENDS Integers, Sequences, FiniteSets, TLC

VARIABLES
    client,   \* the *PDFClient the caller holds
    fs,       \* the file system: path -> node
    call      \* the call that has just returned (operation, inputs, outcome);
              \* NoCall once the caller has taken its result

vars == <<client, fs, call>>

-----------------------------------------------------------------------------
(* Bounds of the model *)

MaxOptions == 2        \* length of the option list given to NewPDFClient
MaxHeaderValues == 2   \* custom header values the caller adds to client.Headers
MaxSplits == 2         \* length of a splits list
MaxEntries == 2        \* entries of a zip archive
MaxFields == 2         \* entries of an extra-fields mapping

-----------------------------------------------------------------------------
(* Go values *)

\* A slice ([]byte, []int, [][]int): the nil slice and the empty slice differ only in isNil.
NilSlice == [isNil |-> TRUE, data |-> <<>>]
Slice(d) == [isNil |-> FALSE, data |-> d]

\* error values
NoError == [kind |-> "nil"]
IsError(e) == e.kind # "nil"

\* Range of a sequence
Range(s) == {s[i] : i \in 1..Len(s)}

\* All sequences over S of length at most n
SeqUpTo(S, n) == UNION {[1..k -> S] : k \in 0..n}

-----------------------------------------------------------------------------
(* Client construction: NewPDFClient, SetBaseURL, SetAPIVersion *)

APIKeys == {"api-key", "other-key"}
BaseURLs == {"http://127.0.0.1:5011", "https://example.org"}
APIVersions == {"v1", "v2"}

DefaultBaseURL == "https://data.fastpdfservice.com"
DefaultAPIVersion == "v1"

SupportedImageFormats ==
    <<"jpeg", "png", "gif", "bmp", "tiff", "webp", "svg", "ico", "pdf", "psd",
      "ai", "eps", "cr2", "nef", "sr2", "orf", "rw2", "dng", "arw", "heic">>

\* An option is a func(*PDFClient); the two the library offers:
SetBaseURL(url) == [fn |-> "SetBaseURL", arg |-> url]
SetAPIVersion(version) == [fn |-> "SetAPIVersion", arg |-> version]

Options == {SetBaseURL(u) : u \in BaseURLs} \cup {SetAPIVersion(v) : v \in APIVersions}

\* option(client): the closure's body
ApplyOption(option, c) ==
    IF option.fn = "SetBaseURL"
    THEN [c EXCEPT !.BaseURL = option.arg]
    ELSE [c EXCEPT !.APIVersion = option.arg]

\* for _, option := range options { option(client) }
RECURSIVE ApplyOptions(_, _)
ApplyOptions(options, c) ==
    IF options = <<>> THEN c
    ELSE ApplyOptions(Tail(options), ApplyOption(Head(options), c))

\* fmt.Sprintf("%s/%s", a, b)
SprintfSlash(a, b) == a \o "/" \o b

\* the version segment is appended before the options run
NewPDFClient_VersionBeforeOptions(apiKey, options) ==
    LET c0 == [APIVersion |-> DefaultAPIVersion,
               BaseURL    |-> SprintfSlash(DefaultBaseURL, DefaultAPIVersion),
               APIKey     |-> apiKey,
               Headers    |-> [h \in {"Authorization"} |-> <<apiKey>>],
               SupportedImageFormats |-> SupportedImageFormats]
    IN  ApplyOptions(options, c0)

NewPDFClient(apiKey, options) ==
    LET c0 == [APIVersion |-> DefaultAPIVersion,
               BaseURL    |-> DefaultBaseURL,
               APIKey     |-> apiKey,
               Headers    |-> [h \in {"Authorization"} |-> <<apiKey>>],
               SupportedImageFormats |-> SupportedImageFormats]
        c1 == ApplyOptions(options, c0)
    IN  [c1 EXCEPT !.BaseURL = SprintfSlash(c1.BaseURL, c1.APIVersion)]

-----------------------------------------------------------------------------
(* Paths and the file system *)

\* A path is the sequence of its "/"-separated segments; "" is <<>>.
\* filepath.Clean on a relative path: "." is dropped, ".." removes the segment
\* before it, and a leading ".." stays.
RECURSIVE CleanInto(_, _)
CleanInto(done, rest) ==
    IF rest = <<>> THEN done
    ELSE LET s == Head(rest) IN
         IF s = "." \/ s = ""
         THEN CleanInto(done, Tail(rest))
         ELSE IF s = ".." /\ done # <<>> /\ done[Len(done)] # ".."
         THEN CleanInto(SubSeq(done, 1, Len(done) - 1), Tail(rest))
         ELSE CleanInto(Append(done, s), Tail(rest))

Clean(path) == CleanInto(<<>>, path)

\* filepath.Join(a, b): the non-empty elements joined by "/", then Clean
Join(a, b) == Clean(a \o b)

\* filepath.Base(path): the last segment, "." for the empty path
Base(path) == IF path = <<>> THEN "." ELSE path[Len(path)]

\* filepath.Dir of a cleaned path
Dir(path) == IF path = <<>> THEN <<>> ELSE SubSeq(path, 1, Len(path) - 1)

\* fs maps the paths that exist to a node; the working directory <<>> is a
\* directory that always exists.
DirNode == [kind |-> "dir", data |-> <<>>]
FileNode(d) == [kind |-> "file", data |-> d]

Exists(f, p) == p = <<>> \/ p \in DOMAIN f
IsDirAt(f, p) == p = <<>> \/ (p \in DOMAIN f /\ f[p].kind = "dir")
IsFileAt(f, p) == p # <<>> /\ p \in DOMAIN f /\ f[p].kind = "file"

Put(f, k, v) == [x \in DOMAIN f \cup {k} |-> IF x = k THEN v ELSE f[x]]

IOError(op, path) == [kind |-> "io", op |-> op, path |-> path]

\* os.ReadFile(path): the whole content, or (nil, err)
OsReadFile(f, path) ==
    IF IsFileAt(f, Clean(path))
    THEN [data |-> Slice(f[Clean(path)].data), err |-> NoError]
    ELSE [data |-> NilSlice, err |-> IOError("open", path)]

-----------------------------------------------------------------------------
(* http.Header *)

\* textproto.CanonicalMIMEHeaderKey, on the header names of the model
CanonicalMIMEHeaderKey(k) ==
    CASE k = "content-type" -> "Content-Type"
      [] k = "authorization" -> "Authorization"
      [] OTHER -> k

EmptyHeader == [k \in {} |-> <<>>]

HeaderValues(h, k) == IF k \in DOMAIN h THEN h[k] ELSE <<>>

\* Header.Get(k): the first value under the canonical key, "" if none
HeaderGet(h, k) ==
    LET vs == HeaderValues(h, CanonicalMIMEHeaderKey(k))
    IN  IF vs = <<>> THEN "" ELSE vs[1]

\* Header.Set(k, v): replaces the values under the canonical key
HeaderSet(h, k, v) == Put(h, CanonicalMIMEHeaderKey(k), <<v>>)

\* Header.Add(k, v): appends to the values under the canonical key
HeaderAdd(h, k, v) ==
    Put(h, CanonicalMIMEHeaderKey(k),
        Append(HeaderValues(h, CanonicalMIMEHeaderKey(k)), v))

\* for _, value := range values { req.Header.Add(key, value) }
RECURSIVE AddValues(_, _, _)
AddValues(h, key, values) ==
    IF values = <<>> THEN h
    ELSE AddValues(HeaderAdd(h, key, Head(values)), key, Tail(values))

\* the copy loop with Set in place of Add: only the last value survives
RECURSIVE CopyHeaders_Set(_, _, _)
CopyHeaders_Set(h, headers, order) ==
    IF order = <<>> THEN h
    ELSE CopyHeaders_Set(
            IF headers[Head(order)] = <<>> THEN h
            ELSE HeaderSet(h, Head(order),
                           headers[Head(order)][Len(headers[Head(order)])]),
            headers, Tail(order))

\* for key, values := range c.Headers { ... }: Go ranges over a map in an
\* unspecified order; order is the order this run takes.
RECURSIVE CopyHeaders(_, _, _)
CopyHeaders(h, headers, order) ==
    IF order = <<>> THEN h
    ELSE CopyHeaders(AddValues(h, Head(order), headers[Head(order)]),
                     headers, Tail(order))

\* the orders in which a range over the map m can visit its keys
KeyOrders(m) ==
    {o \in [1..Cardinality(DOMAIN m) -> DOMAIN m] : Range(o) = DOMAIN m}

-----------------------------------------------------------------------------
(* The service and the transport, as the client sees them *)

StatusText(code) ==
    CASE code = 200 -> "200 OK"
      [] code = 201 -> "201 Created"
      [] code = 204 -> "204 No Content"
      [] code = 404 -> "404 Not Found"
      [] code = 500 -> "500 Internal Server Error"

StatusCodes == {200, 201, 204, 404, 500}

\* A body is the sequence of chunks the connection delivers; failAt = -1 when
\* every chunk arrives, else the number of chunks read before the read fails.
Bodies == {<<>>, <<"%PDF-1.4 ", "%%EOF">>}

Responses ==
    {[StatusCode |-> c, Status |-> StatusText(c), Body |-> b, failAt |-> n] :
        c \in StatusCodes, b \in Bodies, n \in {-1, 0, 1}}

\* What client.Do meets: a transport failure, or a response.
TransportError == [kind |-> "transport"]
Outcomes ==
    {[err |-> TransportError, resp |-> [StatusCode |-> 0, Status |-> "", Body |-> <<>>, failAt |-> -1]]}
    \cup {[err |-> NoError, resp |-> r] : r \in {x \in Responses : x.failAt <= Len(x.Body) - 1}}

\* io.ReadAll(resp.Body): what was read, and the read error if any
IoReadAll(resp) ==
    IF resp.failAt = -1
    THEN [data |-> Slice(resp.Body), err |-> NoError]
    ELSE [data |-> Slice(SubSeq(resp.Body, 1, resp.failAt)),
          err  |-> [kind |-> "read"]]

-----------------------------------------------------------------------------
(* errors.go: PDFError *)

ReadFailedSentinel == <<"failed to read response body">>

\* NewPDFError(resp).  The struct literal sets StatusCode, Response and
\* Message; Status keeps the zero value of a string.
NewPDFError(resp) ==
    LET body == IoReadAll(resp)
        bodyBytes == IF IsError(body.err) THEN ReadFailedSentinel ELSE body.data.data
    IN  [kind       |-> "PDFError",
         StatusCode |-> resp.StatusCode,
         Status     |-> "",
         Response   |-> bodyBytes,
         Message    |-> "Server returned an HTTP error"]

-----------------------------------------------------------------------------
(* readFile *)

\* The file argument is an interface{}: its dynamic type and its value.
PathArg(path) == [type |-> "string", path |-> path, bytes |-> NilSlice]
BytesArg(b) == [type |-> "[]uint8", path |-> <<>>, bytes |-> b]
OtherArg(t) == [type |-> t, path |-> <<>>, bytes |-> NilSlice]

UnsupportedFileType(t) == [kind |-> "unsupported", msg |-> "unsupported file type: " \o t]

\* readFile that goes on with empty content when the file cannot be read
\* or the type is unsupported
readFile_IgnoreError(file, f) ==
    IF file.type = "string"
    THEN [filename |-> Base(file.path),
          fileContent |-> OsReadFile(f, file.path).data, err |-> NoError]
    ELSE [filename |-> "", fileContent |-> file.bytes, err |-> NoError]

\* readFile(file): (filename, fileContent, contentType, err).  All three
\* callers discard contentType, which is left out.
readFile(file, f) ==
    IF file.type = "string"
    THEN LET r == OsReadFile(f, file.path)
         IN  [filename |-> Base(file.path), fileContent |-> r.data, err |-> r.err]
    ELSE IF file.type = "[]uint8"
    THEN [filename |-> "", fileContent |-> file.bytes, err |-> NoError]
    ELSE [filename |-> "", fileContent |-> NilSlice,
          err |-> UnsupportedFileType(file.type)]

-----------------------------------------------------------------------------
(* encoding/json, as the client uses it *)

DigitChars == <<"0", "1", "2", "3", "4", "5", "6", "7", "8", "9">>

\* strconv formatting of a non-negative int, one token per digit
RECURSIVE FormatNat(_)
FormatNat(n) ==
    IF n < 10 THEN <<DigitChars[n + 1]>>
    ELSE FormatNat(n \div 10) \o <<DigitChars[(n % 10) + 1]>>

FormatInt(n) == IF n < 0 THEN <<"-">> \o FormatNat(-n) ELSE FormatNat(n)

JSONNull == <<"n", "u", "l", "l">>

\* the elements of a JSON array, each already encoded, separated by ","
RECURSIVE JoinComma(_)
JoinComma(items) ==
    IF items = <<>> THEN <<>>
    ELSE IF Len(items) = 1 THEN items[1]
    ELSE items[1] \o <<",">> \o JoinComma(Tail(items))

\* json.Marshal of a []int: a nil slice encodes as null
MarshalInts(s) ==
    IF s.isNil THEN JSONNull
    ELSE <<"[">> \o JoinComma([i \in 1..Len(s.data) |-> FormatInt(s.data[i])]) \o <<"]">>

\* json.Marshal of a [][]int
MarshalIntLists(s) ==
    IF s.isNil THEN JSONNull
    ELSE <<"[">> \o JoinComma([i \in 1..Len(s.data) |-> MarshalInts(s.data[i])]) \o <<"]">>

\* json.Marshal of a map[string]string: keys in sorted order, one token per
\* quoted string (the keys and values of the model need no escaping)
MetadataKeysSorted == <<"/Author", "/Title">>

Quote(str) == "\"" \o str \o "\""

RECURSIVE MarshalMembers(_, _)
MarshalMembers(m, keys) ==
    IF keys = <<>> THEN <<>>
    ELSE LET k == Head(keys)
             rest == MarshalMembers(m, Tail(keys))
         IN  IF k \notin DOMAIN m THEN rest
             ELSE <<Quote(k), ":", Quote(m[k])>>
                  \o (IF rest = <<>> THEN <<>> ELSE <<",">> \o rest)

MarshalStringMap(m) ==
    IF m.isNil THEN JSONNull
    ELSE <<"{">> \o MarshalMembers(m.data, MetadataKeysSorted) \o <<"}">>

-----------------------------------------------------------------------------
(* Requests *)

MalformedBaseURL == "http://bad host"

Endpoints == {"/token", "/pdf/split", "/pdf/split-zip", "/pdf/metadata"}

\* http.NewRequest fails when url.Parse rejects the URL; of the URLs of the
\* model, those built on MalformedBaseURL (a space in the host).
UrlParses(url) ==
    \A v \in APIVersions, e \in Endpoints :
        url # SprintfSlash(MalformedBaseURL, v) \o e

URLError(url) == [kind |-> "url", url |-> url]

NoBody == [boundary |-> "", parts |-> <<>>]

\* What a call hands back: its return values, the requests it gave to Do, and
\* the steps the request builder took (none outside the builder).
Return(ret, err, sent) ==
    [ret |-> ret, err |-> err, sent |-> sent, steps |-> <<>>]

http_StatusOK == 200

\* client.ValidateToken(); outcome is what http.DefaultClient.Do meets.
\* req.Header = client.Headers shares the client's map with the request.
ValidateToken(c, outcome) ==
    LET url == c.BaseURL \o "/token"
        req == [Method |-> "GET", URL |-> url, Header |-> c.Headers, Body |-> NoBody]
    IN  IF ~UrlParses(url) THEN Return(FALSE, URLError(url), <<>>)
        ELSE IF IsError(outcome.err) THEN Return(FALSE, outcome.err, <<req>>)
        ELSE IF outcome.resp.StatusCode # http_StatusOK
        THEN Return(FALSE, NewPDFError(outcome.resp), <<req>>)
        ELSE Return(TRUE, NoError, <<req>>)

\* multipart.Writer: the boundary is drawn at random by NewWriter
Boundaries == {"b1", "b2"}

FormDataContentType(boundary) == "multipart/form-data; boundary=" \o boundary

\* The part header CreateFormFile writes and the bytes part.Write adds to it
FilePart(fileField, filename, fileData) ==
    [kind |-> "file", name |-> fileField, filename |-> filename,
     data |-> fileData.data]

\* writer.WriteField(key, value)
FieldPart(key, value) ==
    [kind |-> "field", name |-> key, filename |-> "", data |-> value]

\* writer := multipart.NewWriter(buffer).  parts is the form as written so
\* far; late holds what is written behind the closing boundary, which is no
\* part of the form.
NewWriter(boundary) ==
    [boundary |-> boundary, parts |-> <<>>, closed |-> FALSE, late |-> <<>>]

\* writer.CreatePart: the next part goes to the end of the buffer
CreatePart(w, part) ==
    IF w.closed THEN [w EXCEPT !.late = Append(@, part)]
    ELSE [w EXCEPT !.parts = Append(@, part)]

\* writer.Close(): the closing boundary
WriterClose(w) == [w EXCEPT !.closed = TRUE]

WriterError(at) == [kind |-> "multipart", at |-> at]

\* One step of the builder: the call made, its argument, whether it succeeded
BuilderStep(name, arg, ok) == [step |-> name, arg |-> arg, ok |-> ok]

\* The builder's position: the writer, the error met, the steps taken
Builder(w, err, steps) == [w |-> w, err |-> err, steps |-> steps]

\* lines 162-165: writer.CreateFormFile(fileField, filename)
CreateFormFile(b, fileField, filename, fault) ==
    IF fault.at = "CreateFormFile"
    THEN Builder(b.w, WriterError("CreateFormFile"),
                 Append(b.steps, BuilderStep("CreateFormFile", fileField, FALSE)))
    ELSE Builder(CreatePart(b.w, FilePart(fileField, filename, Slice(<<>>))),
                 NoError,
                 Append(b.steps, BuilderStep("CreateFormFile", fileField, TRUE)))

\* lines 166-169: part.Write(fileData), into the part CreateFormFile returned
PartWrite(b, fileData, fault) ==
    IF fault.at = "part.Write"
    THEN Builder(b.w, WriterError("part.Write"),
                 Append(b.steps, BuilderStep("part.Write", "", FALSE)))
    ELSE LET n == Len(b.w.parts)
         IN  Builder([b.w EXCEPT !.parts[n].data = @ \o fileData.data],
                     NoError,
                     Append(b.steps, BuilderStep("part.Write", "", TRUE)))

\* lines 172-177: the range over extraFields from its i-th entry on, in the
\* order fieldOrder the map iteration takes; the first WriteField that fails
\* ends it
RECURSIVE WriteFields(_, _, _, _, _)
WriteFields(b, extraFields, fieldOrder, i, fault) ==
    IF i > Len(fieldOrder) THEN b
    ELSE LET key == fieldOrder[i]
         IN  IF fault = [at |-> "WriteField", n |-> i]
             THEN Builder(b.w, WriterError("WriteField"),
                          Append(b.steps, BuilderStep("WriteField", key, FALSE)))
             ELSE WriteFields(
                      Builder(CreatePart(b.w, FieldPart(key, extraFields[key])),
                              NoError,
                              Append(b.steps, BuilderStep("WriteField", key, TRUE))),
                      extraFields, fieldOrder, i + 1, fault)

\* lines 180-183: writer.Close()
Close(b, fault) ==
    IF fault.at = "Close"
    THEN Builder(b.w, WriterError("Close"),
                 Append(b.steps, BuilderStep("Close", "", FALSE)))
    ELSE Builder(WriterClose(b.w), NoError,
                 Append(b.steps, BuilderStep("Close", "", TRUE)))

\* the request built with the client's headers copied by Set
NewPostRequest_SetHeaders(c, url, body, headerOrder) ==
    [Method |-> "POST", URL |-> url, Body |-> body,
     Header |-> CopyHeaders_Set(
                   HeaderSet(EmptyHeader, "Content-Type",
                             FormDataContentType(body.boundary)),
                   c.Headers, headerOrder)]

\* lines 186-195: the POST, its Content-Type, and the client's headers
NewPostRequest(c, url, body, headerOrder) ==
    [Method |-> "POST", URL |-> url, Body |-> body,
     Header |-> CopyHeaders(
                   HeaderSet(EmptyHeader, "Content-Type",
                             FormDataContentType(body.boundary)),
                   c.Headers, headerOrder)]

\* the response handling accepting every 2xx status
Execute_Any2xx(req, outcome) ==
    IF IsError(outcome.err) THEN Return(NilSlice, outcome.err, <<req>>)
    ELSE IF outcome.resp.StatusCode \div 100 # 2
    THEN Return(NilSlice, NewPDFError(outcome.resp), <<req>>)
    ELSE LET body == IoReadAll(outcome.resp)
         IN  Return(body.data, body.err, <<req>>)

\* the response handling that sends the request again after a failure
Execute_Retry(req, outcome) ==
    IF IsError(outcome.err) THEN Return(NilSlice, outcome.err, <<req, req>>)
    ELSE IF outcome.resp.StatusCode # http_StatusOK
    THEN Return(NilSlice, NewPDFError(outcome.resp), <<req, req>>)
    ELSE LET body == IoReadAll(outcome.resp)
         IN  Return(body.data, body.err, <<req>>)

\* lines 197-209: client.Do(req), the status check, io.ReadAll(resp.Body)
Execute(req, outcome) ==
    IF IsError(outcome.err) THEN Return(NilSlice, outcome.err, <<req>>)
    ELSE IF outcome.resp.StatusCode # http_StatusOK
    THEN Return(NilSlice, NewPDFError(outcome.resp), <<req>>)
    ELSE LET body == IoReadAll(outcome.resp)
         IN  Return(body.data, body.err, <<req>>)

\* lines 186-209: http.NewRequest on the finished body, the headers, Do and
\* the response
SendBody(c, url, b, env) ==
    IF ~UrlParses(url)
    THEN [Return(NilSlice, URLError(url), <<>>) EXCEPT
             !.steps = Append(b.steps, BuilderStep("http.NewRequest", url, FALSE))]
    ELSE [Execute(NewPostRequest(c, url, b.w, env.headerOrder), env.outcome) EXCEPT
             !.steps = b.steps \o
                       <<BuilderStep("http.NewRequest", url, TRUE),
                         BuilderStep("client.Do", url, ~IsError(env.outcome.err))>>]

\* the builder closing the body before it writes the fields
makeMultipartPostRequest_CloseBeforeFields(c, url, fileField, fileData, filename, extraFields, env) ==
    LET b1 == CreateFormFile(Builder(NewWriter(env.boundary), NoError, <<>>),
                             fileField, filename, env.fault)
        b2 == IF IsError(b1.err) THEN b1 ELSE PartWrite(b1, fileData, env.fault)
        b3 == IF IsError(b2.err) THEN b2 ELSE Close(b2, env.fault)
        b4 == IF IsError(b3.err) THEN b3
              ELSE WriteFields(b3, extraFields, env.fieldOrder, 1, env.fault)
    IN  IF IsError(b4.err)
        THEN [Return(NilSlice, b4.err, <<>>) EXCEPT !.steps = b4.steps]
        ELSE SendBody(c, url, b4, env)

\* c.makeMultipartPostRequest(url, fileField, fileData, filename, extraFields).
\* env: the boundary drawn, the orders of the two ranges over maps, what
\* client.Do meets, and the step of the writer that fails, if one does: the
\* code checks the error of each.
makeMultipartPostRequest(c, url, fileField, fileData, filename, extraFields, env) ==
    LET b1 == CreateFormFile(Builder(NewWriter(env.boundary), NoError, <<>>),
                             fileField, filename, env.fault)
        b2 == IF IsError(b1.err) THEN b1 ELSE PartWrite(b1, fileData, env.fault)
        b3 == IF IsError(b2.err) THEN b2
              ELSE WriteFields(b2, extraFields, env.fieldOrder, 1, env.fault)
        b4 == IF IsError(b3.err) THEN b3 ELSE Close(b3, env.fault)
    IN  IF IsError(b4.err)
        THEN [Return(NilSlice, b4.err, <<>>) EXCEPT !.steps = b4.steps]
        ELSE SendBody(c, url, b4, env)

-----------------------------------------------------------------------------
(* The upload operations *)

SingleField(key, value) == [k \in {key} |-> value]

\* c.Split(file, splits); f is the file system readFile reads
Split(c, f, file, splits, env) ==
    LET r == readFile(file, f)
    IN  IF IsError(r.err) THEN Return(NilSlice, r.err, <<>>)
        ELSE makeMultipartPostRequest(c, c.BaseURL \o "/pdf/split", "file",
                 r.fileContent, r.filename,
                 SingleField("splits", MarshalInts(splits)), env)

\* c.SplitZip(file, splits)
SplitZip(c, f, file, splits, env) ==
    LET r == readFile(file, f)
    IN  IF IsError(r.err) THEN Return(NilSlice, r.err, <<>>)
        ELSE makeMultipartPostRequest(c, c.BaseURL \o "/pdf/split-zip", "file",
                 r.fileContent, r.filename,
                 SingleField("splits", MarshalIntLists(splits)), env)

\* c.EditMetadata(file, metadata)
EditMetadata(c, f, file, metadata, env) ==
    LET r == readFile(file, f)
    IN  IF IsError(r.err) THEN Return(NilSlice, r.err, <<>>)
        ELSE makeMultipartPostRequest(c, c.BaseURL \o "/pdf/metadata", "file",
                 r.fileContent, r.filename,
                 SingleField("metadata", MarshalStringMap(metadata)), env)

-----------------------------------------------------------------------------
(* Save *)

NoFault == [at |-> "none", n |-> 0]

\* os.OpenFile(path, O_WRONLY|O_CREATE|O_TRUNC, perm): the file is created or
\* truncated, unless the parent is no directory, the path is a directory or
\* the system refuses (fault.at = "create").
OsCreate(f, path, fault) ==
    LET p == Clean(path)
    IN  IF p = <<>> \/ ~IsDirAt(f, Dir(p)) \/ IsDirAt(f, p) \/ fault.at = "create"
        THEN [fs |-> f, err |-> IOError("open", path)]
        ELSE [fs |-> Put(f, p, FileNode(<<>>)), err |-> NoError]

\* Writing data to the file just opened at path: all of it, or, on a fault,
\* the first fault.n chunks and an error.
OsWrite(f, path, data, fault, at) ==
    IF fault.at = at
    THEN [fs |-> Put(f, Clean(path), FileNode(SubSeq(data, 1, fault.n))),
          err |-> IOError("write", path)]
    ELSE [fs |-> Put(f, Clean(path), FileNode(data)), err |-> NoError]

\* os.WriteFile(path, data, 0644)
OsWriteFile(f, path, data, fault) ==
    LET o == OsCreate(f, path, fault)
    IN  IF IsError(o.err) THEN o ELSE OsWrite(o.fs, path, data, fault, "write")

SaveReturn(ret, err, f) == [ret |-> ret, err |-> err, fs |-> f, sent |-> <<>>]

\* Save that hands the content back after writing it
Save_ReturnsContent(content, filePath, f, fault) ==
    IF filePath # <<>>
    THEN LET w == OsWriteFile(f, filePath, content.data, fault)
         IN  IF IsError(w.err) THEN SaveReturn(NilSlice, w.err, w.fs)
             ELSE SaveReturn(content, NoError, w.fs)
    ELSE SaveReturn(content, NoError, f)

\* c.Save(content, filePath)
Save(content, filePath, f, fault) ==
    IF filePath # <<>>
    THEN LET w == OsWriteFile(f, filePath, content.data, fault)
         IN  IF IsError(w.err) THEN SaveReturn(NilSlice, w.err, w.fs)
             ELSE SaveReturn(NilSlice, NoError, w.fs)
    ELSE SaveReturn(content, NoError, f)

-----------------------------------------------------------------------------
(* Extract *)

\* os.MkdirAll(p, perm), from the i-th component on: every missing directory
\* on the way is created; a component that is a file stops it with an error.
RECURSIVE MkdirAllFrom(_, _, _)
MkdirAllFrom(f, p, i) ==
    IF i >= Len(p) THEN [fs |-> f, err |-> NoError]
    ELSE LET q == SubSeq(p, 1, i + 1)
         IN  IF IsFileAt(f, q) THEN [fs |-> f, err |-> IOError("mkdir", q)]
             ELSE MkdirAllFrom(IF Exists(f, q) THEN f ELSE Put(f, q, DirNode), p, i + 1)

OsMkdirAll(f, path, fault) ==
    IF fault.at = "mkdir" THEN [fs |-> f, err |-> IOError("mkdir", path)]
    ELSE MkdirAllFrom(f, Clean(path), 0)

\* One step of Extract on entry i: what it did and whether it succeeded.
Ev(i, step, ok) == [entry |-> i, step |-> step, ok |-> ok]

ZipError(what) == [kind |-> "zip", what |-> what]

\* the loop body returning the error of file.Open without closing f
ExtractEntry_LeakOnOpenError(file, i, outputPath, f, fault) ==
    LET fPath == Join(outputPath, file.Name)
    IN  IF file.isDir
        THEN LET m == OsMkdirAll(f, fPath, fault)
             IN  [fs |-> m.fs, err |-> NoError,
                  events |-> <<Ev(i, "os.MkdirAll", ~IsError(m.err))>>]
        ELSE LET o == OsCreate(f, fPath, fault)
             IN  IF IsError(o.err)
                 THEN [fs |-> o.fs, err |-> o.err,
                       events |-> <<Ev(i, "os.OpenFile", FALSE)>>]
                 ELSE IF fault.at = "open"
                 THEN [fs |-> o.fs, err |-> ZipError("open"),
                       events |-> <<Ev(i, "os.OpenFile", TRUE), Ev(i, "file.Open", FALSE)>>]
                 ELSE LET w == OsWrite(o.fs, fPath, file.data, fault, "copy")
                      IN  [fs |-> w.fs, err |-> w.err,
                           events |-> <<Ev(i, "os.OpenFile", TRUE), Ev(i, "file.Open", TRUE),
                                        Ev(i, "io.Copy", ~IsError(w.err)),
                                        Ev(i, "f.Close", TRUE), Ev(i, "rc.Close", TRUE)>>]

\* The body of the loop of Extract for the i-th entry.  The result of
\* os.MkdirAll is dropped; the other failures return.
ExtractEntry(file, i, outputPath, f, fault) ==
    LET fPath == Join(outputPath, file.Name)
    IN  IF file.isDir
        THEN LET m == OsMkdirAll(f, fPath, fault)
             IN  [fs |-> m.fs, err |-> NoError,
                  events |-> <<Ev(i, "os.MkdirAll", ~IsError(m.err))>>]
        ELSE LET o == OsCreate(f, fPath, fault)
             IN  IF IsError(o.err)
                 THEN [fs |-> o.fs, err |-> o.err,
                       events |-> <<Ev(i, "os.OpenFile", FALSE)>>]
                 ELSE IF fault.at = "open"
                 THEN [fs |-> o.fs, err |-> ZipError("open"),
                       events |-> <<Ev(i, "os.OpenFile", TRUE), Ev(i, "file.Open", FALSE),
                                    Ev(i, "f.Close", TRUE)>>]
                 ELSE LET w == OsWrite(o.fs, fPath, file.data, fault, "copy")
                      IN  [fs |-> w.fs, err |-> w.err,
                           events |-> <<Ev(i, "os.OpenFile", TRUE), Ev(i, "file.Open", TRUE),
                                        Ev(i, "io.Copy", ~IsError(w.err)),
                                        Ev(i, "f.Close", TRUE), Ev(i, "rc.Close", TRUE)>>]

\* for _, file := range zipReader.File { ... }, from entry i on
RECURSIVE ExtractFrom(_, _, _, _, _, _)
ExtractFrom(entries, i, outputPath, f, faults, events) ==
    IF i > Len(entries) THEN [ret |-> NilSlice, err |-> NoError, fs |-> f, sent |-> <<>>, events |-> events]
    ELSE LET r == ExtractEntry(entries[i], i, outputPath, f, faults[i])
         IN  IF IsError(r.err)
             THEN [ret |-> NilSlice, err |-> r.err, fs |-> r.fs, sent |-> <<>>, events |-> events \o r.events]
             ELSE ExtractFrom(entries, i + 1, outputPath, r.fs, faults, events \o r.events)

\* c.Extract(zipBytes, outputPath).  zipBytes is the archive as zip.NewReader
\* sees it: whether its structure is valid, and its entries in order.
Extract(zipBytes, outputPath, f, faults) ==
    IF ~zipBytes.valid
    THEN [ret |-> NilSlice, err |-> ZipError("format"), fs |-> f, sent |-> <<>>, events |-> <<>>]
    ELSE ExtractFrom(zipBytes.entries, 1, outputPath, f, faults, <<>>)

-----------------------------------------------------------------------------
(* Inputs of the calls and choices of the environment *)

SamplePDF == <<"%PDF-1.4 ", "%%EOF">>

\* the file arguments: a readable path, a missing one, a directory, raw
\* bytes, and a value of another type
FileArgs ==
    {PathArg(<<"in.pdf">>), PathArg(<<"missing.pdf">>), PathArg(<<"out">>),
     BytesArg(Slice(SamplePDF)), OtherArg("int")}
GoodFileArgs == {PathArg(<<"in.pdf">>), BytesArg(Slice(SamplePDF))}

PageValues == {-1, 0, 3, 12}
IntSplits == {NilSlice} \cup {Slice(d) : d \in SeqUpTo(PageValues, MaxSplits)}
FewIntSplits == {NilSlice, Slice(<<3, 7>>)}

Pairs == {Slice(<<0, 1>>), Slice(<<1, 2>>), Slice(<<12, -3>>)}
PairSplits == {NilSlice} \cup {Slice(d) : d \in SeqUpTo(Pairs, MaxSplits)}
FewPairSplits == {Slice(<<Slice(<<0, 1>>), Slice(<<1, 2>>)>>)}

Metadatas ==
    {NilSlice, Slice([k \in {"/Title"} |-> "John Doe"]),
     Slice([k \in {"/Title", "/Author"} |-> IF k = "/Title" THEN "T" ELSE "A"])}

OKOutcome == [err |-> NoError,
              resp |-> [StatusCode |-> 200, Status |-> StatusText(200),
                        Body |-> SamplePDF, failAt |-> -1]]
FewOutcomes ==
    {o \in Outcomes : \/ IsError(o.err)
                      \/ o = OKOutcome
                      \/ (o.resp.StatusCode = 404 /\ o.resp.failAt = -1 /\ o.resp.Body = <<>>)}

Envs(c, extraKey, outcomes) ==
    [boundary : Boundaries, fieldOrder : {<<extraKey>>},
     headerOrder : KeyOrders(c.Headers), outcome : outcomes,
     fault : {NoFault}]

\* The request builder on its own: extra-fields mappings of up to MaxFields
\* entries, and the step of the multipart writer that fails.  The callers in
\* this package hand it one entry and a writer over a bytes.Buffer (fault
\* NoFault above); the other choices exercise the ranges and error checks of
\* lines 163-183.
ExtraFieldNames == {"splits", "metadata", "pages"}

ExtraFieldsSets ==
    UNION {[names -> {MarshalInts(Slice(<<1>>))}] :
              names \in {n \in SUBSET ExtraFieldNames : Cardinality(n) <= MaxFields}}

Filenames == {"", "in.pdf"}

BuilderFaults(fieldOrder) ==
    {NoFault} \cup {[at |-> a, n |-> 0] : a \in {"CreateFormFile", "part.Write", "Close"}}
              \cup {[at |-> "WriteField", n |-> i] : i \in 1..Len(fieldOrder)}

CustomHeaderNames == {"Content-Type", "content-type", "X-Request-Id"}
CustomHeaderValues == {"application/json", "text/plain"}

RECURSIVE CountValues(_, _)
CountValues(h, names) ==
    IF names = {} THEN 0
    ELSE LET k == CHOOSE x \in names : TRUE
         IN  Len(HeaderValues(h, k)) + CountValues(h, names \ {k})

WriteFaults(data, at) ==
    {NoFault, [at |-> "create", n |-> 0]} \cup {[at |-> at, n |-> n] : n \in 0..Len(data)}

ZipEntries ==
    {[Name |-> <<"d">>, isDir |-> TRUE, data |-> <<>>],
     [Name |-> <<"a.txt">>, isDir |-> FALSE, data |-> <<"A">>],
     [Name |-> <<"d", "b.txt">>, isDir |-> FALSE, data |-> <<"B">>]}

\* Entries whose names are not local: "../evil.txt", "../up/" and the
\* absolute "/abs.txt".  zip.NewReader hands them over as they are.
UnsafeEntries ==
    {[Name |-> <<"..", "evil.txt">>, isDir |-> FALSE, data |-> <<"E">>],
     [Name |-> <<"..", "up">>, isDir |-> TRUE, data |-> <<>>],
     [Name |-> <<"", "abs.txt">>, isDir |-> FALSE, data |-> <<"S">>]}

Archives ==
    {[valid |-> FALSE, entries |-> <<>>]}
    \cup {[valid |-> TRUE, entries |-> e] : e \in SeqUpTo(ZipEntries, MaxEntries)}
UnsafeArchives ==
    {[valid |-> TRUE, entries |-> e] :
        e \in SeqUpTo(UnsafeEntries \cup {[Name |-> <<"a.txt">>, isDir |-> FALSE,
                                            data |-> <<"A">>]}, MaxEntries)}
FewArchives == {a \in Archives : Len(a.entries) <= 1}

EntryFaults(file) ==
    IF file.isDir THEN {NoFault, [at |-> "mkdir", n |-> 0]}
    ELSE WriteFaults(file.data, "copy") \cup {[at |-> "open", n |-> 0]}

FaultPlans(entries) ==
    {fp \in [1..Len(entries) -> UNION {EntryFaults(e) : e \in Range(entries)}] :
        \A i \in 1..Len(entries) : fp[i] \in EntryFaults(entries[i])}

OutputPaths == {<<"out">>}
SavePaths == {<<>>, <<"out", "d">>, <<"out">>, <<"nodir", "x.pdf">>}
Contents == {Slice(<<>>), Slice(SamplePDF)}

-----------------------------------------------------------------------------
(* State and actions *)

Call(op, in, env, ret, err, sent, events) ==
    [op |-> op, in |-> in, env |-> env, ret |-> ret, err |-> err,
     sent |-> sent, events |-> events]

InitClients ==
    {[apiKey |-> "api-key",
      options |-> <<SetBaseURL("http://127.0.0.1:5011"), SetAPIVersion("v1")>>],
     [apiKey |-> "other-key", options |-> <<>>],
     [apiKey |-> "api-key", options |-> <<SetBaseURL(MalformedBaseURL)>>]}

InitFS ==
    [p \in {<<"in.pdf">>, <<"out">>} |->
        IF p = <<"in.pdf">> THEN FileNode(SamplePDF) ELSE DirNode]

NoCall == Call("", <<>>, <<>>, NilSlice, NoError, <<>>, <<>>)

Init ==
    /\ \E ic \in InitClients : client = NewPDFClient(ic.apiKey, ic.options)
    /\ fs = InitFS
    /\ call = NoCall

\* The library is synchronous and single-threaded: the caller takes the result
\* of a call before it makes the next one.
CallerTakesResult ==
    /\ call # NoCall
    /\ call' = NoCall
    /\ UNCHANGED <<client, fs>>

\* client = NewPDFClient(apiKey, options...)
CallNewPDFClient(optionLists) ==
    \E apiKey \in APIKeys, options \in optionLists :
        /\ call = NoCall
        /\ client' = NewPDFClient(apiKey, options)
        /\ call' = Call("NewPDFClient", [apiKey |-> apiKey, options |-> options],
                        <<>>, NilSlice, NoError, <<>>, <<>>)
        /\ UNCHANGED fs

\* The caller adds a custom header to the exported Headers map:
\* client.Headers[k] = append(client.Headers[k], v)
CallerAddsHeader(names, values) ==
    \E k \in names, v \in values :
        /\ call = NoCall
        /\ CountValues(client.Headers, CustomHeaderNames) < MaxHeaderValues
        /\ client' = [client EXCEPT
                         !.Headers = Put(@, k, Append(HeaderValues(@, k), v))]
        /\ call' = Call("Headers", [key |-> k, value |-> v],
                        <<>>, NilSlice, NoError, <<>>, <<>>)
        /\ UNCHANGED fs

CallValidateToken(outcomes) ==
    \E outcome \in outcomes :
        LET r == ValidateToken(client, outcome)
        IN  /\ call = NoCall
            /\ call' = Call("ValidateToken", <<>>, [outcome |-> outcome],
                            r.ret, r.err, r.sent, <<>>)
            /\ UNCHANGED <<client, fs>>

CallSplit(files, splitsSet, outcomes) ==
    \E file \in files, splits \in splitsSet, env \in Envs(client, "splits", outcomes) :
        LET r == Split(client, fs, file, splits, env)
        IN  /\ call = NoCall
            /\ call' = Call("Split", [file |-> file, splits |-> splits],
                            [boundary |-> env.boundary, outcome |-> env.outcome],
                            r.ret, r.err, r.sent, r.steps)
            /\ UNCHANGED <<client, fs>>

CallSplitZip(files, splitsSet, outcomes) ==
    \E file \in files, splits \in splitsSet, env \in Envs(client, "splits", outcomes) :
        LET r == SplitZip(client, fs, file, splits, env)
        IN  /\ call = NoCall
            /\ call' = Call("SplitZip", [file |-> file, splits |-> splits],
                            [boundary |-> env.boundary, outcome |-> env.outcome],
                            r.ret, r.err, r.sent, r.steps)
            /\ UNCHANGED <<client, fs>>

CallEditMetadata(files, metadatas, outcomes) ==
    \E file \in files, metadata \in metadatas, env \in Envs(client, "metadata", outcomes) :
        LET r == EditMetadata(client, fs, file, metadata, env)
        IN  /\ call = NoCall
            /\ call' = Call("EditMetadata", [file |-> file, metadata |-> metadata],
                            [boundary |-> env.boundary, outcome |-> env.outcome],
                            r.ret, r.err, r.sent, r.steps)
            /\ UNCHANGED <<client, fs>>

\* c.makeMultipartPostRequest(url, "file", fileData, filename, extraFields)
CallMakeMultipartPostRequest(fieldsSets, outcomes) ==
    \E fileData \in {NilSlice, Slice(SamplePDF)}, filename \in Filenames,
       extraFields \in fieldsSets, boundary \in Boundaries, outcome \in outcomes :
        \E fieldOrder \in KeyOrders(extraFields),
           headerOrder \in KeyOrders(client.Headers) :
          \E fault \in BuilderFaults(fieldOrder) :
            LET url == client.BaseURL \o "/pdf/split"
                r == makeMultipartPostRequest(client, url, "file", fileData,
                         filename, extraFields,
                         [boundary |-> boundary, fieldOrder |-> fieldOrder,
                          headerOrder |-> headerOrder, outcome |-> outcome,
                          fault |-> fault])
            IN  /\ call = NoCall
                /\ call' = Call("makeMultipartPostRequest",
                                [url |-> url, fileField |-> "file",
                                 fileData |-> fileData, filename |-> filename,
                                 extraFields |-> extraFields],
                                [boundary |-> boundary, outcome |-> outcome,
                                 fieldOrder |-> fieldOrder, fault |-> fault],
                                r.ret, r.err, r.sent, r.steps)
                /\ UNCHANGED <<client, fs>>

CallSave(contents) ==
    \E content \in contents, filePath \in SavePaths :
        \E fault \in WriteFaults(content.data, "write") :
            LET r == Save(content, filePath, fs, fault)
            IN  /\ call = NoCall
                /\ fs' = r.fs
                /\ call' = Call("Save", [content |-> content, filePath |-> filePath],
                                [fault |-> fault], r.ret, r.err, <<>>, <<>>)
                /\ UNCHANGED client

CallExtract(archives) ==
    \E zipBytes \in archives, outputPath \in OutputPaths :
        \E faults \in FaultPlans(zipBytes.entries) :
            LET r == Extract(zipBytes, outputPath, fs, faults)
            IN  /\ call = NoCall
                /\ fs' = r.fs
                /\ call' = Call("Extract", [zipBytes |-> zipBytes, outputPath |-> outputPath],
                                [faults |-> faults], NilSlice, r.err, <<>>, r.events)
                /\ UNCHANGED client

-----------------------------------------------------------------------------
(* Specifications *)

OptionLists == SeqUpTo(Options, MaxOptions)
FewOptionLists == {o \in OptionLists : Len(o) <= 1}

\* The whole library, on few inputs per call
Next ==
    \/ CallNewPDFClient(FewOptionLists)
    \/ CallerAddsHeader({"Content-Type"}, {"application/json"})
    \/ CallValidateToken(FewOutcomes)
    \/ CallSplit(GoodFileArgs, FewIntSplits, FewOutcomes)
    \/ CallSplitZip(GoodFileArgs, FewPairSplits, FewOutcomes)
    \/ CallEditMetadata(GoodFileArgs, Metadatas, FewOutcomes)
    \/ CallMakeMultipartPostRequest({SingleField("pages", JSONNull)}, {OKOutcome})
    \/ CallSave({Slice(SamplePDF)})
    \/ CallExtract(FewArchives)
    \/ CallerTakesResult

Spec == Init /\ [][Next]_vars

\* Construction and configuration of the client
NextConfig ==
    \/ CallNewPDFClient(OptionLists)
    \/ CallerAddsHeader(CustomHeaderNames, CustomHeaderValues)
    \/ CallerTakesResult

SpecConfig == Init /\ [][NextConfig]_vars

\* The operations that contact the service, on every file argument and
\* every outcome of the exchange
NextHTTP ==
    \/ CallValidateToken(Outcomes)
    \/ CallSplit(FileArgs, FewIntSplits, Outcomes)
    \/ CallSplitZip(FileArgs, FewPairSplits, Outcomes)
    \/ CallEditMetadata(FileArgs, Metadatas, Outcomes)
    \/ CallerTakesResult

SpecHTTP == Init /\ [][NextHTTP]_vars

\* The same operations on clients with custom headers
NextHeaders ==
    \/ CallerAddsHeader(CustomHeaderNames, CustomHeaderValues)
    \/ CallValidateToken(FewOutcomes)
    \/ CallSplit(GoodFileArgs, FewIntSplits, FewOutcomes)
    \/ CallSplitZip(GoodFileArgs, FewPairSplits, FewOutcomes)
    \/ CallEditMetadata(GoodFileArgs, Metadatas, FewOutcomes)
    \/ CallerTakesResult

SpecHeaders == Init /\ [][NextHeaders]_vars

\* Split and SplitZip on every splits list
NextSplits ==
    \/ CallSplit(GoodFileArgs, IntSplits, FewOutcomes)
    \/ CallSplitZip(GoodFileArgs, PairSplits, FewOutcomes)
    \/ CallerTakesResult

SpecSplits == Init /\ [][NextSplits]_vars

\* The request builder, on its own and under Split
NextBuilder ==
    \/ CallMakeMultipartPostRequest(ExtraFieldsSets, FewOutcomes)
    \/ CallSplit(GoodFileArgs, FewIntSplits, FewOutcomes)
    \/ CallerTakesResult

SpecBuilder == Init /\ [][NextBuilder]_vars

\* The helpers that write to the file system
NextFS == CallSave(Contents) \/ CallExtract(Archives) \/ CallerTakesResult

SpecFS == Init /\ [][NextFS]_vars

\* Extract on archives with entry names that are not local
NextUnsafe == CallExtract(UnsafeArchives) \/ CallerTakesResult

SpecUnsafe == Init /\ [][NextUnsafe]_vars

-----------------------------------------------------------------------------
(* Reading JSON back, as json.Unmarshal into a []int or a [][]int does; used *)
(* to state the claims about the splits field.                               *)

DigitValue(ch) == CHOOSE d \in 0..9 : DigitChars[d + 1] = ch
IsDigit(ch) == \E d \in 0..9 : DigitChars[d + 1] = ch

RECURSIVE ParseNat(_, _)
ParseNat(text, acc) ==
    IF text = <<>> THEN acc
    ELSE ParseNat(Tail(text), 10 * acc + DigitValue(Head(text)))

IsIntText(text) ==
    LET digits == IF text # <<>> /\ Head(text) = "-" THEN Tail(text) ELSE text
    IN  digits # <<>> /\ \A i \in 1..Len(digits) : IsDigit(digits[i])

ParseInt(text) ==
    IF Head(text) = "-" THEN 0 - ParseNat(Tail(text), 0) ELSE ParseNat(text, 0)

\* the elements of the array body text, cut at the commas outside brackets
RECURSIVE SplitTop(_, _, _, _)
SplitTop(text, depth, cur, done) ==
    IF text = <<>> THEN Append(done, cur)
    ELSE LET ch == Head(text)
         IN  IF ch = "," /\ depth = 0
             THEN SplitTop(Tail(text), depth, <<>>, Append(done, cur))
             ELSE SplitTop(Tail(text),
                           IF ch = "[" THEN depth + 1
                           ELSE IF ch = "]" THEN depth - 1 ELSE depth,
                           Append(cur, ch), done)

IsArrayText(text) == Len(text) >= 2 /\ text[1] = "[" /\ text[Len(text)] = "]"

ArrayItems(text) ==
    IF Len(text) = 2 THEN <<>>
    ELSE SplitTop(SubSeq(text, 2, Len(text) - 1), 0, <<>>, <<>>)

\* json.Unmarshal(text, &v) with v a []int: ok is false on an error
UnmarshalInts(text) ==
    IF text = JSONNull THEN [ok |-> TRUE, v |-> NilSlice]
    ELSE IF ~IsArrayText(text) THEN [ok |-> FALSE, v |-> NilSlice]
    ELSE LET items == ArrayItems(text)
         IN  IF \A i \in 1..Len(items) : IsIntText(items[i])
             THEN [ok |-> TRUE, v |-> Slice([i \in 1..Len(items) |-> ParseInt(items[i])])]
             ELSE [ok |-> FALSE, v |-> NilSlice]

\* json.Unmarshal(text, &v) with v a [][]int
UnmarshalIntLists(text) ==
    IF text = JSONNull THEN [ok |-> TRUE, v |-> NilSlice]
    ELSE IF ~IsArrayText(text) THEN [ok |-> FALSE, v |-> NilSlice]
    ELSE LET items == ArrayItems(text)
         IN  IF \A i \in 1..Len(items) : UnmarshalInts(items[i]).ok
             THEN [ok |-> TRUE, v |-> Slice([i \in 1..Len(items) |-> UnmarshalInts(items[i]).v])]
             ELSE [ok |-> FALSE, v |-> NilSlice]

-----------------------------------------------------------------------------
(* Claims *)

UploadOps == {"Split", "SplitZip", "EditMetadata"}
ServiceOps == UploadOps \cup {"ValidateToken"}

\* the call reached client.Do and a response came back
GotResponse == call.op \in ServiceOps /\ call.sent # <<>> /\ ~IsError(call.env.outcome.err)

\* C1: NewPDFClient(key, SetBaseURL(base), SetAPIVersion(version)), the two
\* options in either order, yields APIKey = key, APIVersion = version,
\* BaseURL = base + "/" + version, and a header set holding exactly
\* Authorization with the key as its single value.
C1_ClientConstruction ==
    call.op = "NewPDFClient" =>
        \A base \in BaseURLs, version \in APIVersions :
            Range(call.in.options) = {SetBaseURL(base), SetAPIVersion(version)} =>
                /\ client.APIKey = call.in.apiKey
                /\ client.APIVersion = version
                /\ client.BaseURL = base \o "/" \o version
                /\ DOMAIN client.Headers = {"Authorization"}
                /\ client.Headers["Authorization"] = <<call.in.apiKey>>

C1_Witness ==
    /\ call.op = "NewPDFClient"
    /\ call.in.options = <<SetAPIVersion("v2"), SetBaseURL("https://example.org")>>
    /\ client.BaseURL = "https://example.org/v2"

\* C2 as claimed: once a response has come back, the call succeeds if and
\* only if its status is 200: on 200 ValidateToken returns (true, nil) and an
\* upload returns the full response body with no error; on any other status
\* the call returns false / no content and a PDFError with that status code.
C2_SuccessIffStatus200 ==
    GotResponse =>
        LET resp == call.env.outcome.resp
        IN  IF resp.StatusCode = 200
            THEN /\ call.err = NoError
                 /\ call.ret = IF call.op = "ValidateToken" THEN TRUE ELSE Slice(resp.Body)
            ELSE /\ call.ret = IF call.op = "ValidateToken" THEN FALSE ELSE NilSlice
                 /\ call.err.kind = "PDFError"
                 /\ call.err.StatusCode = resp.StatusCode

\* C2 as amended: as above, but on a 200 response to an upload whose body
\* cannot be read to the end, the call fails with the read error.
C2_SuccessIffStatus200AndBodyRead ==
    GotResponse =>
        LET resp == call.env.outcome.resp
        IN  IF resp.StatusCode = 200
            THEN IF call.op = "ValidateToken"
                 THEN call.ret = TRUE /\ call.err = NoError
                 ELSE IF resp.failAt = -1
                 THEN call.ret = Slice(resp.Body) /\ call.err = NoError
                 ELSE call.err.kind = "read"
            ELSE /\ call.ret = IF call.op = "ValidateToken" THEN FALSE ELSE NilSlice
                 /\ call.err.kind = "PDFError"
                 /\ call.err.StatusCode = resp.StatusCode

C2_Witness ==
    /\ GotResponse
    /\ call.op = "SplitZip"
    /\ call.env.outcome.resp.StatusCode = 204
    /\ call.err.kind = "PDFError"
    /\ call.err.StatusCode = 204

\* C3: the PDFError built from a non-200 response carries the response's
\* status code, its status text and its raw body text, with the message
\* "Server returned an HTTP error".
C3_ErrorCarriesResponse ==
    (GotResponse /\ call.env.outcome.resp.StatusCode # 200) =>
        LET resp == call.env.outcome.resp
        IN  /\ call.err.kind = "PDFError"
            /\ call.err.StatusCode = resp.StatusCode
            /\ call.err.Status = resp.Status
            /\ call.err.Response = resp.Body
            /\ call.err.Message = "Server returned an HTTP error"

\* how many times the header set h carries value v under a name that equals
\* name up to case
RECURSIVE CountIn(_, _)
CountIn(v, values) ==
    IF values = <<>> THEN 0
    ELSE (IF Head(values) = v THEN 1 ELSE 0) + CountIn(v, Tail(values))

RECURSIVE CarriedOver(_, _, _, _)
CarriedOver(h, keys, name, v) ==
    IF keys = {} THEN 0
    ELSE LET k == CHOOSE x \in keys : TRUE
         IN  (IF CanonicalMIMEHeaderKey(k) = CanonicalMIMEHeaderKey(name)
              THEN CountIn(v, h[k]) ELSE 0)
             + CarriedOver(h, keys \ {k}, name, v)

Carried(h, name, v) == CarriedOver(h, DOMAIN h, name, v)

\* C4: every request sent carries Authorization with the client's API key as
\* its value, and every header of the client's header set with each of its
\* values as many times as the header set holds it.
C4_RequestsCarryClientHeaders ==
    call.op \in ServiceOps =>
        \A i \in 1..Len(call.sent) :
            LET req == call.sent[i]
            IN  /\ HeaderValues(req.Header, "Authorization") = <<client.APIKey>>
                /\ \A name \in DOMAIN client.Headers :
                      \A j \in 1..Len(client.Headers[name]) :
                          Carried(req.Header, name, client.Headers[name][j])
                              >= Carried(client.Headers, name, client.Headers[name][j])

C4_Witness ==
    /\ call.op = "Split"
    /\ Len(call.sent) = 1
    /\ client.Headers = [k \in {"Authorization", "X-Request-Id"} |->
                            IF k = "Authorization" THEN <<client.APIKey>>
                            ELSE <<"text/plain", "text/plain">>]
    /\ call.sent[1].Header["X-Request-Id"] = <<"text/plain", "text/plain">>
    /\ call.sent[1].Header["Authorization"] = <<client.APIKey>>

\* C5: the Content-Type of a multipart POST is the encoder's value with the
\* boundary, and nothing else: the copy of the client's headers neither
\* replaces it nor adds a further Content-Type value.
C5_ContentTypeIsTheEncoders ==
    call.op \in UploadOps =>
        \A i \in 1..Len(call.sent) :
            \A k \in DOMAIN call.sent[i].Header :
                CanonicalMIMEHeaderKey(k) = "Content-Type" =>
                    /\ k = "Content-Type"
                    /\ call.sent[i].Header[k]
                         = <<FormDataContentType(call.sent[i].Body.boundary)>>

\* the form fields of the request's multipart body
Fields(req) == SelectSeq(req.Body.parts, LAMBDA part : part.kind = "field")

\* C6: for every splits list given to Split or SplitZip, the empty list
\* included, the request carries exactly one extra field, named splits, whose
\* value is a JSON array that reads back as the input; an empty list is sent
\* as [] and is not rejected locally.
C6_SplitsFieldIsJSONArray ==
    (call.op \in {"Split", "SplitZip"} /\ call.in.file \in GoodFileArgs
        /\ UrlParses(client.BaseURL \o "/pdf/split")) =>
        /\ Len(call.sent) = 1
        /\ LET fields == Fields(call.sent[1])
               back == IF call.op = "Split" THEN UnmarshalInts(fields[1].data)
                       ELSE UnmarshalIntLists(fields[1].data)
           IN  /\ Len(fields) = 1
               /\ fields[1].name = "splits"
               /\ IsArrayText(fields[1].data)
               /\ back.ok
               /\ back.v.data = call.in.splits.data
               /\ (call.in.splits.data = <<>> => fields[1].data = <<"[", "]">>)

\* Supporting C6: for every non-nil splits list the field is a JSON array that
\* reads back as the input; the nil slice is sent as null.
C6_NonNilSplitsRoundTrip ==
    (call.op \in {"Split", "SplitZip"} /\ call.in.file \in GoodFileArgs
        /\ UrlParses(client.BaseURL \o "/pdf/split")) =>
        IF call.in.splits.isNil
        THEN Fields(call.sent[1])[1].data = JSONNull
        ELSE C6_SplitsFieldIsJSONArray

\* C7: Save(content, path).  With a non-empty path and a successful write the
\* file at path holds exactly content and the call returns (nil, nil); when
\* the write fails the I/O error is returned; with an empty path the call
\* returns (content, nil) and no file is created or changed.
C7_Save ==
    [][call'.op = "Save" =>
         LET content == call'.in.content
             path == call'.in.filePath
         IN  IF path = <<>>
             THEN call'.ret = content /\ call'.err = NoError /\ fs' = fs
             ELSE /\ call'.ret = NilSlice
                  /\ call'.env.fault.at # "none" => call'.err.kind = "io"
                  /\ call'.err = NoError =>
                        /\ IsFileAt(fs', Clean(path))
                        /\ fs'[Clean(path)].data = content.data
                        /\ \A p \in (DOMAIN fs \cup DOMAIN fs') \ {Clean(path)} :
                              p \in DOMAIN fs /\ p \in DOMAIN fs' /\ fs'[p] = fs[p]
    ]_vars

C7_Witness ==
    /\ call.op = "Save"
    /\ call.in.filePath = <<"out", "d">>
    /\ call.in.content = Slice(<<>>)
    /\ call.err = NoError
    /\ call.ret = NilSlice
    /\ fs[<<"out", "d">>] = FileNode(<<>>)

\* C8: in Extract the first failure of any step (invalid zip structure,
\* creating a directory entry's path, creating a file entry's target, opening
\* or copying an entry) aborts the operation: no later entry is processed
\* and Extract returns a failure.
C8_FirstFailureAborts ==
    call.op = "Extract" =>
        /\ ~call.in.zipBytes.valid => (IsError(call.err) /\ call.events = <<>>)
        /\ \A i \in 1..Len(call.events) :
              ~call.events[i].ok =>
                  /\ IsError(call.err)
                  /\ \A j \in i..Len(call.events) :
                        call.events[j].entry = call.events[i].entry

\* Supporting C8: every failure other than that of os.MkdirAll ends Extract
\* with an error and nothing is done after it.
C8_FailuresButMkdirAllAbort ==
    call.op = "Extract" =>
        /\ ~call.in.zipBytes.valid => (IsError(call.err) /\ call.events = <<>>)
        /\ \A i \in 1..Len(call.events) :
              (~call.events[i].ok /\ call.events[i].step # "os.MkdirAll") =>
                  /\ IsError(call.err)
                  /\ \A j \in i..Len(call.events) :
                        call.events[j].entry = call.events[i].entry

\* C9: an upload whose file argument is neither a path nor a byte slice fails
\* with an error naming the type, and one whose path cannot be read fails
\* with the I/O error of the read; neither sends a request.
C9_BadFileSendsNothing ==
    call.op \in UploadOps =>
        LET file == call.in.file
        IN  /\ file.type \notin {"string", "[]uint8"} =>
                  /\ call.err = [kind |-> "unsupported",
                                  msg |-> "unsupported file type: " \o file.type]
                  /\ call.ret = NilSlice
                  /\ call.sent = <<>>
            /\ (file.type = "string" /\ ~IsFileAt(fs, Clean(file.path))) =>
                  /\ call.err = IOError("open", file.path)
                  /\ call.ret = NilSlice
                  /\ call.sent = <<>>

C9_Witness ==
    /\ call.op = "EditMetadata"
    /\ call.in.file = OtherArg("int")
    /\ call.err.kind = "unsupported"
    /\ call.sent = <<>>

C9_WitnessUnreadable ==
    /\ call.op = "Split"
    /\ call.in.file = PathArg(<<"missing.pdf">>)
    /\ call.err.kind = "io"
    /\ call.sent = <<>>

\* C10: a call of ValidateToken, Split, SplitZip or EditMetadata gives at
\* most one request to the transport; when the exchange fails (transport
\* error or a status other than 200) the call returns that failure and has
\* sent the one request only.
C10_OneAttempt ==
    call.op \in ServiceOps =>
        /\ Len(call.sent) <= 1
        /\ (call.sent # <<>> /\ IsError(call.env.outcome.err)) =>
              call.err = call.env.outcome.err
        /\ (GotResponse /\ call.env.outcome.resp.StatusCode # 200) =>
              call.err.kind = "PDFError"

C10_Witness ==
    /\ call.op = "Split"
    /\ Len(call.sent) = 1
    /\ call.env.outcome.err = TransportError
    /\ call.err = TransportError

\* The steps of the request builder, in the order of the code
StepRank(name) ==
    CASE name = "CreateFormFile" -> 1
      [] name = "part.Write" -> 2
      [] name = "WriteField" -> 3
      [] name = "Close" -> 4
      [] name = "http.NewRequest" -> 5
      [] name = "client.Do" -> 6

BuilderRan ==
    /\ call.op \in UploadOps \cup {"makeMultipartPostRequest"}
    /\ call.events # <<>>

StepsOf(name) == SelectSeq(call.events, LAMBDA e : e.step = name)

\* C11: in every call of the request builder the file part is written first
\* (one CreateFormFile, then one part.Write), then the fields, then the body
\* is closed, then the request is built and sent; nothing is written after
\* the close; a step that fails is the last one, and when it is a step of
\* the writer the call returns its error and sends nothing.  The request that
\* is sent carries a closed body of exactly the file part (field name,
\* filename, bytes as given) followed by one field per entry of extraFields.
C11_BuilderOrder ==
    BuilderRan =>
        LET steps == call.events
            n == Len(steps)
        IN  /\ steps[1].step = "CreateFormFile"
            /\ \A i, j \in 1..n :
                  i < j => /\ StepRank(steps[i].step) <= StepRank(steps[j].step)
                           /\ StepRank(steps[i].step) = StepRank(steps[j].step)
                                 => steps[i].step = "WriteField"
                           /\ steps[i].ok
            /\ (StepRank(steps[n].step) <= 5 /\ ~steps[n].ok) =>
                  /\ call.sent = <<>>
                  /\ IsError(call.err)
                  /\ call.ret = NilSlice
            /\ (StepRank(steps[n].step) <= 4 /\ ~steps[n].ok) =>
                  call.err = WriterError(steps[n].step)
            /\ call.sent # <<>> <=> steps[n].step = "client.Do"
            /\ call.sent # <<>> =>
                  LET body == call.sent[1].Body
                  IN  /\ Len(call.sent) = 1
                      /\ call.sent[1].Method = "POST"
                      /\ [i \in 1..n |-> StepRank(steps[i].step)]
                            = <<1, 2>> \o [i \in 1..(n - 5) |-> 3] \o <<4, 5, 6>>
                      /\ body.closed
                      /\ body.late = <<>>
                      /\ body.parts[1].kind = "file"
                      /\ \A i \in 2..Len(body.parts) : body.parts[i].kind = "field"
                      /\ Len(body.parts) = 1 + Len(StepsOf("WriteField"))
            /\ (call.op = "makeMultipartPostRequest" /\ call.sent # <<>>) =>
                  LET body == call.sent[1].Body
                      in == call.in
                  IN  /\ body.parts[1] = FilePart(in.fileField, in.filename, in.fileData)
                      /\ Len(body.parts) = 1 + Cardinality(DOMAIN in.extraFields)
                      /\ \A key \in DOMAIN in.extraFields :
                            \E i \in 2..Len(body.parts) :
                                body.parts[i] = FieldPart(key, in.extraFields[key])

\* a request sent with two fields after the file part
C11_Witness ==
    /\ call.op = "makeMultipartPostRequest"
    /\ Cardinality(DOMAIN call.in.extraFields) = 2
    /\ call.in.fileData = Slice(SamplePDF)
    /\ Len(call.sent) = 1
    /\ Len(call.sent[1].Body.parts) = 3
    /\ call.events[Len(call.events)].step = "client.Do"

\* the second of two fields fails to be written: nothing is sent
C11_WitnessFieldFails ==
    /\ call.op = "makeMultipartPostRequest"
    /\ call.env.fault = [at |-> "WriteField", n |-> 2]
    /\ call.err = WriterError("WriteField")
    /\ call.sent = <<>>
    /\ Len(call.events) = 4

\* The handles Extract holds after the first k of its steps: f of an entry
\* from a successful os.OpenFile to f.Close, rc from a successful file.Open
\* to rc.Close.
OpensHandle(e) ==
    IF e.ok /\ e.step = "os.OpenFile" THEN {<<e.entry, "f">>}
    ELSE IF e.ok /\ e.step = "file.Open" THEN {<<e.entry, "rc">>}
    ELSE {}

ClosesHandle(e) ==
    IF e.step = "f.Close" THEN {<<e.entry, "f">>}
    ELSE IF e.step = "rc.Close" THEN {<<e.entry, "rc">>}
    ELSE {}

RECURSIVE OpenHandles(_, _)
OpenHandles(events, k) ==
    IF k = 0 THEN {}
    ELSE (OpenHandles(events, k - 1) \ ClosesHandle(events[k]))
         \cup OpensHandle(events[k])

\* C12: during Extract the open handles at any moment belong to one entry,
\* the entry being processed; none is open when the next entry's first step
\* is taken; and none is open when Extract returns, with or without error.
C12_HandlesClosed ==
    call.op = "Extract" =>
        /\ \A k \in 1..Len(call.events) :
              /\ \A h \in OpenHandles(call.events, k) : h[1] = call.events[k].entry
              /\ (k > 1 /\ call.events[k].entry # call.events[k - 1].entry) =>
                    OpenHandles(call.events, k - 1) = {}
              /\ \A h \in ClosesHandle(call.events[k]) :
                    h \in OpenHandles(call.events, k - 1)
        /\ OpenHandles(call.events, Len(call.events)) = {}

\* Extract returns the error of file.Open on its second file entry: both
\* entries had a destination file open, and none is left open
C12_Witness ==
    /\ call.op = "Extract"
    /\ IsError(call.err)
    /\ Len(call.events) = 8
    /\ call.events[2] = Ev(1, "file.Open", TRUE)
    /\ call.events[7] = Ev(2, "file.Open", FALSE)
    /\ OpenHandles(call.events, 2) = {<<1, "f">>, <<1, "rc">>}
    /\ OpenHandles(call.events, 6) = {<<2, "f">>}
    /\ OpenHandles(call.events, 8) = {}

\* p lies in the directory dir, or is dir itself
Inside(p, dir) == Len(p) >= Len(dir) /\ SubSeq(p, 1, Len(dir)) = dir

\* The paths created, or changed in kind or content, from f to g
Written(f, g) == {p \in DOMAIN g : p \notin DOMAIN f \/ g[p] # f[p]}

\* C13: whatever the archive and the destination directory, every file or
\* directory that a call of Extract creates or truncates lies inside the
\* destination directory.
C13_ExtractStaysInside ==
    [][call'.op = "Extract" =>
          \A p \in Written(fs, fs') : Inside(p, Clean(call'.in.outputPath))]_vars

\* Supporting C13: entries whose names have no ".." segment are written
\* inside the destination directory.
C13_NamesWithoutDotDotStayInside ==
    [][(/\ call'.op = "Extract"
        /\ \A i \in 1..Len(call'.in.zipBytes.entries) :
              ".." \notin Range(call'.in.zipBytes.entries[i].Name)) =>
          \A p \in Written(fs, fs') : Inside(p, Clean(call'.in.outputPath))]_vars

\* The two outcomes of a call that returns ([]byte, error): content (a
\* non-nil slice) with no error, or an error with no bytes of content
ContentNoError == call.err = NoError /\ ~call.ret.isNil
ErrorNoContent == IsError(call.err) /\ call.ret.data = <<>>

\* C14: every call of Split, SplitZip, EditMetadata and Save returns content
\* with no error, or an error with no content; when the read of the body of
\* a 200 response fails part-way the call returns the error and no part of
\* the body.
C14_ContentXorError ==
    call.op \in UploadOps \cup {"Save"} =>
        /\ ContentNoError \/ ErrorNoContent
        /\ (/\ call.op \in UploadOps
            /\ GotResponse
            /\ call.env.outcome.resp.StatusCode = 200
            /\ call.env.outcome.resp.failAt # -1) =>
              ErrorNoContent

\* Supporting C14: an upload returns one of the two outcomes unless the read
\* of the body of a 200 response fails; then it returns the read error
\* together with the chunks read before the failure.
C14_UploadsExceptFailedRead ==
    call.op \in UploadOps =>
        IF /\ GotResponse
           /\ call.env.outcome.resp.StatusCode = 200
           /\ call.env.outcome.resp.failAt # -1
        THEN /\ call.err.kind = "read"
             /\ call.ret = Slice(SubSeq(call.env.outcome.resp.Body, 1,
                                         call.env.outcome.resp.failAt))
        ELSE \/ call.err = NoError /\ ~call.ret.isNil
             \/ IsError(call.err) /\ call.ret = NilSlice

\* a call of Split that returns the first chunk of the body and the error
C14_PartialBodyWithError ==
    /\ call.op = "Split"
    /\ call.err.kind = "read"
    /\ call.ret = Slice(<<"%PDF-1.4 ">>)

\* a call of Save that wrote the file and returns neither content nor error
C14_SaveReturnsNeither ==
    /\ call.op = "Save"
    /\ call.in.filePath # <<>>
    /\ call.err = NoError
    /\ call.ret = NilSlice

====
